---- MODULE Spec2Model ----
(***************************************************************************)
(* Street-grid distance engine: create_graph (utils/create_graph.py),      *)
(* build_adjacency_list, bfs_shortest_distances,                           *)
(* generate_random_point_pairs and calculate_distances_to_all_vertices     *)
(* (distance_analysis.py).                                                 *)
(*                                                                         *)
(* Python lists are modelled as sequences (list index k is sequence index  *)
(* k+1), except the distance vector and the result table, which are        *)
(* functions on 0..total_vertices-1.  A defaultdict is a function whose    *)
(* DOMAIN is its key set.                                                  *)
(***************************************************************************)
EXTENDS Integers, Sequences, FiniteSets, TLC

VARIABLES
    pc,                 \* position of the running call
    error,              \* name of the exception that ended the call, or "none"
    ret,                \* value returned by the outermost call, or None
    width, height, horizontal_weight, vertical_weight,   \* create_graph arguments
    edges, vertices,    \* edge list / vertex list
    adj_list,           \* defaultdict(list) built by build_adjacency_list
    total_vertices,     \* total_vertices argument
    source,             \* start_vertex argument of bfs_shortest_distances
    distances, queue, current, nbr_idx,   \* locals of bfs_shortest_distances
    caller,             \* who called bfs_shortest_distances
    random_pairs, result, j, start_vertex, end_vertex, distances_from_start,
                        \* arguments and locals of calculate_distances_to_all_vertices
    n, seed, point_pairs, i,   \* arguments and locals of generate_random_point_pairs
    gen, tape,          \* the process-wide generator of module random
    calls               \* sampler calls the caller has completed and kept

vars == <<pc, error, ret, width, height, horizontal_weight, vertical_weight,
          edges, vertices, adj_list, total_vertices, source, distances, queue,
          current, nbr_idx, caller, random_pairs, result, j, start_vertex,
          end_vertex, distances_from_start, n, seed, point_pairs, i, gen, tape,
          calls>>

graphVars   == <<width, height, horizontal_weight, vertical_weight, edges, vertices>>
bfsVars     == <<adj_list, total_vertices, source, distances, queue, current,
                 nbr_idx, caller>>
aggVars     == <<random_pairs, result, j, start_vertex, end_vertex,
                 distances_from_start>>
samplerVars == <<n, seed, point_pairs, i, gen, tape, calls>>

-----------------------------------------------------------------------------
(* Bounds of the model *)
MaxDim    == 3      \* largest width / height drawn
MaxWeight == 2      \* largest edge weight drawn
MaxNeg    == 1      \* how far below zero an integer argument is drawn
MaxEdges  == 2      \* longest free-form edge list drawn
MaxPairs  == 2      \* longest list of vertex pairs drawn
MaxAggVertices == 4 \* largest grid (in vertices) given to the aggregator
Period    == 3      \* number of states of the model's random generator
MaxSeed   == 1      \* largest seed drawn

(* Defaults of create_graph *)
DefaultWidth            == 20
DefaultHeight           == 10
DefaultHorizontalWeight == 2
DefaultVerticalWeight   == 1

(* Python values *)
None     == 0 - 999  \* None, or an unbound local, where an integer may stand
NoneCell == <<>>     \* None where a list, a tuple or a dict may stand
Inf      == -1       \* float('inf'): no distance of the model is negative

-----------------------------------------------------------------------------
(* utils/create_graph.py *)

\* for col in range(WIDTH): vertices.append((row * WIDTH + col, row, col))
\* (the entries the loop appends from column col on)
RECURSIVE VertexCols(_, _, _)
VertexCols(W, row, col) ==
    IF col >= W THEN <<>>
    ELSE <<<<row * W + col, row, col>>>> \o VertexCols(W, row, col + 1)

\* for row in range(HEIGHT): ...
RECURSIVE VertexRows(_, _, _)
VertexRows(W, H, row) ==
    IF row >= H THEN <<>>
    ELSE VertexCols(W, row, 0) \o VertexRows(W, H, row + 1)

\* for col in range(WIDTH - 1):
\*     edges.append((row*WIDTH + col, row*WIDTH + (col+1), HORIZONTAL_WEIGHT))
RECURSIVE HorizontalCols(_, _, _, _)
HorizontalCols(W, hw, row, col) ==
    IF col >= W - 1 THEN <<>>
    ELSE <<<<row * W + col, row * W + (col + 1), hw>>>> \o HorizontalCols(W, hw, row, col + 1)

\* for row in range(HEIGHT): ...
RECURSIVE HorizontalRows(_, _, _, _)
HorizontalRows(W, H, hw, row) ==
    IF row >= H THEN <<>>
    ELSE HorizontalCols(W, hw, row, 0) \o HorizontalRows(W, H, hw, row + 1)

\* for col in range(WIDTH):
\*     edges.append((row*WIDTH + col, (row+1)*WIDTH + col, VERTICAL_WEIGHT))
RECURSIVE VerticalCols(_, _, _, _)
VerticalCols(W, vw, row, col) ==
    IF col >= W THEN <<>>
    ELSE <<<<row * W + col, (row + 1) * W + col, vw>>>> \o VerticalCols(W, vw, row, col + 1)

\* for row in range(HEIGHT - 1): ...
RECURSIVE VerticalRows(_, _, _, _)
VerticalRows(W, H, vw, row) ==
    IF row >= H - 1 THEN <<>>
    ELSE VerticalCols(W, vw, row, 0) \o VerticalRows(W, H, vw, row + 1)

\* Faulty variant of create_graph: the vertical row loop runs over range(HEIGHT),
\* one row too far.
CreateGraphOffByOne(W, H, hw, vw) ==
    [edges    |-> HorizontalRows(W, H, hw, 0) \o VerticalRows(W, H + 1, vw, 0),
     vertices |-> VertexRows(W, H, 0)]

\* Faulty variant of create_graph: the vertical edges are appended before the horizontal ones.
CreateGraphVerticalFirst(W, H, hw, vw) ==
    [edges    |-> VerticalRows(W, H, vw, 0) \o HorizontalRows(W, H, hw, 0),
     vertices |-> VertexRows(W, H, 0)]

\* a variant whose second edge loop never runs: rows are not joined
CreateGraphRowsOnly(W, H, hw, vw) ==
    [edges    |-> HorizontalRows(W, H, hw, 0),
     vertices |-> VertexRows(W, H, 0)]

\* create_graph(width, height, horizontal_weight, vertical_weight): (edges, vertices).
\* The function has no validation and no raise: every argument tuple returns.
CreateGraph(W, H, hw, vw) ==
    [edges    |-> HorizontalRows(W, H, hw, 0) \o VerticalRows(W, H, vw, 0),
     vertices |-> VertexRows(W, H, 0)]

-----------------------------------------------------------------------------
(* distance_analysis.py: build_adjacency_list *)

EmptyDict == <<>>       \* a dict with no key

\* adj_list[key].append(entry) on a defaultdict(list): a missing key is created
DictAppend(adj, key, entry) ==
    IF key \in DOMAIN adj
    THEN [adj EXCEPT ![key] = Append(@, entry)]
    ELSE [k \in DOMAIN adj \cup {key} |-> IF k = key THEN <<entry>> ELSE adj[k]]

\* Faulty variant: an entry already present in the list is not appended again
DictAppendDedup(adj, key, entry) ==
    IF key \in DOMAIN adj
    THEN IF \E k \in 1..Len(adj[key]) : adj[key][k] = entry
         THEN adj
         ELSE [adj EXCEPT ![key] = Append(@, entry)]
    ELSE [k \in DOMAIN adj \cup {key} |-> IF k = key THEN <<entry>> ELSE adj[k]]

\* for start, end, weight in edges:        (from edge number k on)
\*     adj_list[start].append((end, weight))
\*     adj_list[end].append((start, weight))
RECURSIVE AdjacencyLoop(_, _, _)
AdjacencyLoop(es, k, adj) ==
    IF k > Len(es) THEN adj
    ELSE LET e == es[k]
             a1 == DictAppend(adj, e[1], <<e[2], e[3]>>)
             a2 == DictAppend(a1, e[2], <<e[1], e[3]>>)
         IN  AdjacencyLoop(es, k + 1, a2)

RECURSIVE AdjacencyLoopDedup(_, _, _)
AdjacencyLoopDedup(es, k, adj) ==
    IF k > Len(es) THEN adj
    ELSE LET e == es[k]
             a1 == DictAppendDedup(adj, e[1], <<e[2], e[3]>>)
             a2 == DictAppendDedup(a1, e[2], <<e[1], e[3]>>)
         IN  AdjacencyLoopDedup(es, k + 1, a2)

\* Faulty variant of build_adjacency_list: parallel edges are deduplicated
BuildAdjacencyListDedup(es) == AdjacencyLoopDedup(es, 1, EmptyDict)

\* a variant that files each edge under its first endpoint only
RECURSIVE AdjacencyLoopOneWay(_, _, _)
AdjacencyLoopOneWay(es, k, adj) ==
    IF k > Len(es) THEN adj
    ELSE LET e == es[k]
         IN  AdjacencyLoopOneWay(es, k + 1, DictAppend(adj, e[1], <<e[2], e[3]>>))

BuildAdjacencyListOneWay(es) == AdjacencyLoopOneWay(es, 1, EmptyDict)

\* build_adjacency_list(edges)
BuildAdjacencyList(es) == AdjacencyLoop(es, 1, EmptyDict)

-----------------------------------------------------------------------------
(* distance_analysis.py: bfs_shortest_distances *)

\* float arithmetic with float('inf')
Plus(a, w) == IF a = Inf THEN Inf ELSE a + w
Less(a, b) == a # Inf /\ (b = Inf \/ a < b)

\* Python list indexing: lst[idx] is defined for -len <= idx < len and a
\* negative idx counts from the end; any other idx raises IndexError
PyIndexOk(idx, len) == 0 - len <= idx /\ idx < len
PyIndex(idx, len)   == IF idx >= 0 THEN idx ELSE len + idx

\* distances = [float('inf')] * total_vertices
AllInf(total) == [v \in 0 .. (total - 1) |-> Inf]

\* adj_list[key] on a defaultdict(list): a missing key is inserted with []
DictGet(adj, key) == IF key \in DOMAIN adj THEN adj[key] ELSE <<>>
DictTouch(adj, key) ==
    IF key \in DOMAIN adj THEN adj
    ELSE [k \in DOMAIN adj \cup {key} |-> IF k = key THEN <<>> ELSE adj[k]]

\* Faulty variant: current = queue[0], the vertex is never removed from the queue
PopLeftPeek(q) == q

\* queue.popleft(): the queue that remains
PopLeft(q) == Tail(q)

\* Faulty variant: a hop counts 1 whatever the weight of the edge
RelaxUnitWeight(dist, q, cur, neighbor, weight, total) ==
    LET new_distance == Plus(dist[PyIndex(cur, total)], 1)
        nb == PyIndex(neighbor, total)
    IN  IF Less(new_distance, dist[nb])
        THEN [distances |-> [dist EXCEPT ![nb] = new_distance],
              queue |-> Append(q, neighbor)]
        ELSE [distances |-> dist, queue |-> q]

\* a variant that records the shorter distance but does not queue the vertex
RelaxNoAppend(dist, q, cur, neighbor, weight, total) ==
    LET new_distance == Plus(dist[PyIndex(cur, total)], weight)
        nb == PyIndex(neighbor, total)
    IN  IF Less(new_distance, dist[nb])
        THEN [distances |-> [dist EXCEPT ![nb] = new_distance], queue |-> q]
        ELSE [distances |-> dist, queue |-> q]

\* new_distance = distances[current] + weight
\* if new_distance < distances[neighbor]:
\*     distances[neighbor] = new_distance
\*     queue.append(neighbor)
Relax(dist, q, cur, neighbor, weight, total) ==
    LET new_distance == Plus(dist[PyIndex(cur, total)], weight)
        nb == PyIndex(neighbor, total)
    IN  IF Less(new_distance, dist[nb])
        THEN [distances |-> [dist EXCEPT ![nb] = new_distance],
              queue |-> Append(q, neighbor)]
        ELSE [distances |-> dist, queue |-> q]

\* Where bfs_shortest_distances returns to
ReturnLabel(who) ==
    CASE who = "main"  -> "done"
      [] who = "start" -> "agg_got_start"
      [] who = "end"   -> "agg_got_end"

\* distances = [float('inf')] * total_vertices; distances[start_vertex] = 0;
\* queue = deque([start_vertex])        (the entry of a call with source src)
BfsEnter(src) ==
    IF PyIndexOk(src, total_vertices)
    THEN /\ distances' = [AllInf(total_vertices) EXCEPT ![PyIndex(src, total_vertices)] = 0]
         /\ queue' = <<src>>
         /\ pc' = "bfs_while"
         /\ error' = error
    ELSE /\ distances' = AllInf(total_vertices)
         /\ queue' = <<>>
         /\ pc' = "error"
         /\ error' = "IndexError"

\* bfs_shortest_distances(adj_list, source, total_vertices) called directly
BfsCall ==
    /\ pc = "bfs_call"
    /\ BfsEnter(source)
    /\ current' = None /\ nbr_idx' = 0
    /\ UNCHANGED <<ret, graphVars, adj_list, total_vertices, source, caller,
                   aggVars, samplerVars>>

\* while queue: current = queue.popleft(); for ... in adj_list[current]:
BfsPop ==
    /\ pc = "bfs_while"
    /\ queue # <<>>
    /\ current' = Head(queue)
    /\ queue' = PopLeft(queue)
    /\ adj_list' = DictTouch(adj_list, current')
    /\ nbr_idx' = 1
    /\ pc' = IF Len(DictGet(adj_list, current')) = 0 THEN "bfs_while" ELSE "bfs_for"
    /\ UNCHANGED <<error, ret, graphVars, total_vertices, source, distances, caller,
                   aggVars, samplerVars>>

\* one pass of the body of: for neighbor, weight in adj_list[current]
BfsRelax ==
    /\ pc = "bfs_for"
    /\ LET entry == adj_list[current][nbr_idx]
           last  == nbr_idx = Len(adj_list[current])
       IN  IF PyIndexOk(entry[1], total_vertices)
           THEN LET r == Relax(distances, queue, current, entry[1], entry[2],
                               total_vertices)
                IN  /\ distances' = r.distances
                    /\ queue' = r.queue
                    /\ nbr_idx' = nbr_idx + 1
                    /\ pc' = IF last THEN "bfs_while" ELSE "bfs_for"
                    /\ error' = error
           ELSE /\ pc' = "error"
                /\ error' = "IndexError"
                /\ UNCHANGED <<distances, queue, nbr_idx>>
    /\ UNCHANGED <<ret, graphVars, adj_list, total_vertices, source, current, caller,
                   aggVars, samplerVars>>

\* the queue is empty: return distances. A direct call hands the list to the
\* outermost caller (ret); calculate_distances_to_all_vertices receives the
\* list object itself and reads it as distances
BfsReturn ==
    /\ pc = "bfs_while"
    /\ queue = <<>>
    /\ ret' = IF caller = "main" THEN distances ELSE ret
    /\ pc' = ReturnLabel(caller)
    /\ UNCHANGED <<error, graphVars, bfsVars, aggVars, samplerVars>>

-----------------------------------------------------------------------------
(* distance_analysis.py: calculate_distances_to_all_vertices *)

\* result = [[None for _ in range(len(random_pairs))] for _ in range(total_vertices)]
EmptyTable(total, npairs) == [v \in 0 .. (total - 1) |-> [c \in 1 .. npairs |-> NoneCell]]

\* Faulty variant: the column of pair j holds the end distances twice
StoreColumnEndOnly(table, col, from_start, from_end) ==
    [v \in DOMAIN table |-> [table[v] EXCEPT ![col + 1] = <<from_end[v], from_end[v]>>]]

\* for i in range(total_vertices):
\*     result[i][j] = (distances_from_start[i], distances_from_end[i])
\* (pair j of the code is column j+1 of the table)
StoreColumn(table, col, from_start, from_end) ==
    [v \in DOMAIN table |-> [table[v] EXCEPT ![col + 1] = <<from_start[v], from_end[v]>>]]

\* adj_list = build_adjacency_list(edges); result = [[None ...] ...]
AggCall ==
    /\ pc = "agg_call"
    /\ adj_list' = BuildAdjacencyList(edges)
    /\ result' = EmptyTable(total_vertices, Len(random_pairs))
    /\ j' = 0
    /\ pc' = "agg_loop"
    /\ UNCHANGED <<error, ret, graphVars, total_vertices, source, distances, queue,
                   current, nbr_idx, caller, random_pairs, start_vertex, end_vertex,
                   distances_from_start, samplerVars>>

\* for j, (start_vertex, end_vertex) in enumerate(random_pairs):
\*     distances_from_start = bfs_shortest_distances(adj_list, start_vertex, total_vertices)
\* (the call is entered here)
AggPair ==
    /\ pc = "agg_loop"
    /\ j < Len(random_pairs)
    /\ start_vertex' = random_pairs[j + 1][1]
    /\ end_vertex' = random_pairs[j + 1][2]
    /\ caller' = "start"
    /\ source' = start_vertex'
    /\ BfsEnter(start_vertex')
    /\ current' = None /\ nbr_idx' = 0
    /\ UNCHANGED <<ret, graphVars, adj_list, total_vertices, random_pairs, result, j,
                   distances_from_start, samplerVars>>

\* distances_from_start receives the first search's result;
\* distances_from_end = bfs_shortest_distances(adj_list, end_vertex, total_vertices)
\* (the call is entered here)
AggEndSearch ==
    /\ pc = "agg_got_start"
    /\ distances_from_start' = distances
    /\ caller' = "end"
    /\ source' = end_vertex
    /\ BfsEnter(end_vertex)
    /\ current' = None /\ nbr_idx' = 0
    /\ UNCHANGED <<ret, graphVars, adj_list, total_vertices, random_pairs, result, j,
                   start_vertex, end_vertex, samplerVars>>

\* distances_from_end (the list the second search returned) is stored with distances_from_start in column j
AggStore ==
    /\ pc = "agg_got_end"
    /\ result' = StoreColumn(result, j, distances_from_start, distances)
    /\ j' = j + 1
    /\ pc' = "agg_loop"
    /\ UNCHANGED <<error, ret, graphVars, bfsVars, random_pairs, start_vertex,
                   end_vertex, distances_from_start, samplerVars>>

\* the pairs are exhausted: return result
AggReturn ==
    /\ pc = "agg_loop"
    /\ j >= Len(random_pairs)
    /\ ret' = result
    /\ pc' = "done"
    /\ UNCHANGED <<error, graphVars, bfsVars, aggVars, samplerVars>>

-----------------------------------------------------------------------------
(* distance_analysis.py: generate_random_point_pairs *)

(* Module random's process-wide generator.  Its state, gen, steps through a   *)
(* cycle; what it yields in each state is fixed by tape, which is arbitrary:  *)
(* the model covers every sequence of draws a deterministic generator can     *)
(* give.                                                                      *)
GenStates == 0 .. (Period - 1)
RawValues == 0 .. (MaxDim - 1)

\* random.seed(seed): the generator state is a function of the seed alone
SeedState(sd) == sd % Period

\* random.randint(lo, hi): ValueError on an empty range
RandIntOk(lo, hi) == lo <= hi
RandIntValue(gstate, lo, hi) == lo + (tape[gstate] % (hi - lo + 1))
GenAdvance(gstate) == (gstate + 1) % Period

\* Faulty variant: the seed is accepted and never given to the generator
ReseedNever(gstate, sd) == gstate

\* if seed is not None: random.seed(seed)
Reseed(gstate, sd) == IF sd # None THEN SeedState(sd) ELSE gstate

\* Faulty variant: the end vertex is never redrawn
CollidesNever(s, e) == FALSE

\* while end_vertex == start_vertex
Collides(s, e) == e = s

\* (if seed is not None: random.seed(seed)); point_pairs = []
SamplerCall ==
    /\ pc = "sampler_call"
    /\ gen' = Reseed(gen, seed)
    /\ point_pairs' = <<>>
    /\ i' = 0
    /\ pc' = "sampler_loop"
    /\ UNCHANGED <<error, ret, graphVars, bfsVars, random_pairs, result, j,
                   start_vertex, end_vertex, distances_from_start, n, seed, tape,
                   calls>>

\* for i in range(n):
\*     start_vertex = random.randint(0, total_vertices - 1)
\*     end_vertex = random.randint(0, total_vertices - 1)
SamplerDraw ==
    /\ pc = "sampler_loop"
    /\ i < n
    /\ IF RandIntOk(0, total_vertices - 1)
       THEN /\ start_vertex' = RandIntValue(gen, 0, total_vertices - 1)
            /\ end_vertex' = RandIntValue(GenAdvance(gen), 0, total_vertices - 1)
            /\ gen' = GenAdvance(GenAdvance(gen))
            /\ pc' = "sampler_while"
            /\ error' = error
       ELSE /\ pc' = "error"
            /\ error' = "ValueError"
            /\ UNCHANGED <<start_vertex, end_vertex, gen>>
    /\ UNCHANGED <<ret, graphVars, bfsVars, random_pairs, result, j,
                   distances_from_start, n, seed, point_pairs, i, tape, calls>>

\* while end_vertex == start_vertex: end_vertex = random.randint(0, total_vertices - 1)
SamplerRedraw ==
    /\ pc = "sampler_while"
    /\ Collides(start_vertex, end_vertex)
    /\ end_vertex' = RandIntValue(gen, 0, total_vertices - 1)
    /\ gen' = GenAdvance(gen)
    /\ UNCHANGED <<pc, error, ret, graphVars, bfsVars, random_pairs, result, j,
                   start_vertex, distances_from_start, n, seed, point_pairs, i, tape,
                   calls>>

\* point_pairs.append((start_vertex, end_vertex))
SamplerAppend ==
    /\ pc = "sampler_while"
    /\ ~Collides(start_vertex, end_vertex)
    /\ point_pairs' = Append(point_pairs, <<start_vertex, end_vertex>>)
    /\ i' = i + 1
    /\ pc' = "sampler_loop"
    /\ UNCHANGED <<error, ret, graphVars, bfsVars, random_pairs, result, j,
                   start_vertex, end_vertex, distances_from_start, n, seed, gen, tape,
                   calls>>

\* return point_pairs
SamplerReturn ==
    /\ pc = "sampler_loop"
    /\ i >= n
    /\ ret' = point_pairs
    /\ pc' = "done"
    /\ UNCHANGED <<error, graphVars, bfsVars, aggVars, samplerVars>>

\* The caller keeps the list (random_pairs = generate_random_point_pairs(...)),
\* the process-wide generator is used by anyone in any way, and the caller
\* calls again with the same n, total_vertices and seed.
SamplerAgain ==
    /\ pc = "done"
    /\ calls = 0
    /\ random_pairs' = ret
    /\ calls' = 1
    /\ gen' \in GenStates
    /\ pc' = "sampler_call"
    /\ UNCHANGED <<error, ret, graphVars, bfsVars, result, j, start_vertex,
                   end_vertex, distances_from_start, n, seed, point_pairs, i, tape>>

-----------------------------------------------------------------------------
(* Values of the variables a specification does not use *)
IdleGraph ==
    /\ width = 0 /\ height = 0 /\ horizontal_weight = 0 /\ vertical_weight = 0
    /\ edges = <<>> /\ vertices = <<>>
IdleBfs ==
    /\ adj_list = <<>> /\ total_vertices = 0 /\ source = 0 /\ distances = <<>>
    /\ queue = <<>> /\ current = None /\ nbr_idx = 0 /\ caller = "main"
IdleAgg ==
    /\ random_pairs = <<>> /\ result = <<>> /\ j = 0
    /\ start_vertex = None /\ end_vertex = None /\ distances_from_start = NoneCell
IdleSampler ==
    /\ n = 0 /\ seed = None /\ point_pairs = <<>> /\ i = 0 /\ gen = 0 /\ tape = <<>>
    /\ calls = 0

-----------------------------------------------------------------------------
(* Specification SpecGraph: one call of create_graph *)

Dims    == (0 - MaxNeg) .. MaxDim
Weights == 1 .. MaxWeight

InitGraph ==
    /\ pc = "create_graph" /\ error = "none" /\ ret = NoneCell
    /\ width \in Dims /\ height \in Dims
    /\ horizontal_weight \in Weights /\ vertical_weight \in Weights
    /\ edges = <<>> /\ vertices = <<>>
    /\ IdleBfs /\ IdleAgg /\ IdleSampler

\* edges, vertices = create_graph(width, height, horizontal_weight, vertical_weight)
CreateGraphCall ==
    /\ pc = "create_graph"
    /\ LET g == CreateGraph(width, height, horizontal_weight, vertical_weight)
       IN  /\ edges' = g.edges
           /\ vertices' = g.vertices
           /\ ret' = <<g.edges, g.vertices>>
    /\ pc' = "done"
    /\ UNCHANGED <<error, width, height, horizontal_weight, vertical_weight>>
    /\ UNCHANGED <<bfsVars, aggVars, samplerVars>>

NextGraph == CreateGraphCall

SpecGraph == InitGraph /\ [][NextGraph]_vars

-----------------------------------------------------------------------------
(* Specification SpecAdj: one call of build_adjacency_list on an arbitrary    *)
(* edge list (parallel edges and self-loops included)                         *)

RECURSIVE SeqsUpTo(_, _)
SeqsUpTo(S, len) ==
    IF len = 0 THEN {<<>>}
    ELSE LET shorter == SeqsUpTo(S, len - 1)
         IN  shorter \cup {Append(q, x) : q \in shorter, x \in S}

FreeVertices == 0 .. (MaxDim - 1)
FreeEdges    == FreeVertices \X FreeVertices \X Weights

InitAdj ==
    /\ pc = "build_adjacency_list" /\ error = "none" /\ ret = NoneCell
    /\ width = 0 /\ height = 0 /\ horizontal_weight = 0 /\ vertical_weight = 0
    /\ vertices = <<>>
    /\ edges \in SeqsUpTo(FreeEdges, MaxEdges)
    /\ IdleBfs /\ IdleAgg /\ IdleSampler

\* adj_list = build_adjacency_list(edges)
BuildAdjacencyListCall ==
    /\ pc = "build_adjacency_list"
    /\ adj_list' = BuildAdjacencyList(edges)
    /\ ret' = adj_list'
    /\ pc' = "done"
    /\ UNCHANGED <<error, graphVars, total_vertices, source, distances, queue,
                   current, nbr_idx, caller, aggVars, samplerVars>>

NextAdj == BuildAdjacencyListCall

SpecAdj == InitAdj /\ [][NextAdj]_vars

-----------------------------------------------------------------------------
(* Specification Spec: one call of bfs_shortest_distances on the adjacency    *)
(* list of a grid graph, from any source, in range or not                     *)

PositiveDimsSet == 1 .. MaxDim

Init ==
    /\ pc = "bfs_call" /\ error = "none" /\ ret = NoneCell
    /\ width \in PositiveDimsSet /\ height \in PositiveDimsSet
    /\ horizontal_weight \in Weights /\ vertical_weight \in Weights
    /\ LET g == CreateGraph(width, height, horizontal_weight, vertical_weight)
       IN  /\ edges = g.edges
           /\ vertices = g.vertices
           /\ adj_list = BuildAdjacencyList(g.edges)
    /\ total_vertices = width * height
    /\ source \in (0 - total_vertices - MaxNeg) .. (total_vertices - 1 + MaxNeg)
    /\ distances = <<>> /\ queue = <<>> /\ current = None /\ nbr_idx = 0
    /\ caller = "main"
    /\ IdleAgg /\ IdleSampler

Next == BfsCall \/ BfsPop \/ BfsRelax \/ BfsReturn

Spec == Init /\ [][Next]_vars

-----------------------------------------------------------------------------
(* Specification SpecAgg: one call of calculate_distances_to_all_vertices on   *)
(* a grid graph with the default weights and a list of in-range vertex pairs   *)

InitAgg ==
    /\ pc = "agg_call" /\ error = "none" /\ ret = NoneCell
    /\ width \in PositiveDimsSet /\ height \in PositiveDimsSet
    /\ width * height <= MaxAggVertices
    /\ horizontal_weight = DefaultHorizontalWeight
    /\ vertical_weight = DefaultVerticalWeight
    /\ LET g == CreateGraph(width, height, horizontal_weight, vertical_weight)
       IN  edges = g.edges /\ vertices = g.vertices
    /\ total_vertices = width * height
    /\ random_pairs \in SeqsUpTo((0 .. (total_vertices - 1)) \X (0 .. (total_vertices - 1)),
                                 MaxPairs)
    /\ adj_list = EmptyDict /\ source = 0 /\ distances = <<>> /\ queue = <<>>
    /\ current = None /\ nbr_idx = 0 /\ caller = "main"
    /\ result = <<>> /\ j = 0
    /\ start_vertex = None /\ end_vertex = None /\ distances_from_start = NoneCell
    /\ IdleSampler

NextAgg ==
    \/ AggCall \/ AggPair \/ AggEndSearch \/ AggStore \/ AggReturn
    \/ BfsPop \/ BfsRelax \/ BfsReturn

SpecAgg == InitAgg /\ [][NextAgg]_vars

\* The same call on a list of Vertex Pairs as the sampler yields them
\* (start # end), run alone to its end: nothing else is scheduled
InitAggDistinct ==
    /\ InitAgg
    /\ \A k \in 1 .. Len(random_pairs) : random_pairs[k][1] # random_pairs[k][2]

FairSpecAgg == InitAggDistinct /\ [][NextAgg]_vars /\ WF_vars(NextAgg)

\* The same call on one pair (u, v) of vertices of any grid, equal or not:
\* the two searches of the pair run from u and from v over one adjacency list
InitPair ==
    /\ pc = "agg_call" /\ error = "none" /\ ret = NoneCell
    /\ width \in PositiveDimsSet /\ height \in PositiveDimsSet
    /\ horizontal_weight \in Weights /\ vertical_weight \in Weights
    /\ LET g == CreateGraph(width, height, horizontal_weight, vertical_weight)
       IN  edges = g.edges /\ vertices = g.vertices
    /\ total_vertices = width * height
    /\ \E u, v \in 0 .. (total_vertices - 1) : random_pairs = << <<u, v>> >>
    /\ adj_list = EmptyDict /\ source = 0 /\ distances = <<>> /\ queue = <<>>
    /\ current = None /\ nbr_idx = 0 /\ caller = "main"
    /\ result = <<>> /\ j = 0
    /\ start_vertex = None /\ end_vertex = None /\ distances_from_start = NoneCell
    /\ IdleSampler

SpecPair == InitPair /\ [][NextAgg]_vars

-----------------------------------------------------------------------------
(* Specification SpecSampler: one call of generate_random_point_pairs, with    *)
(* any generator, any state of it, any seed (or none), any count and bound     *)

InitSampler ==
    /\ pc = "sampler_call" /\ error = "none" /\ ret = NoneCell
    /\ IdleGraph
    /\ adj_list = EmptyDict /\ source = 0 /\ distances = <<>> /\ queue = <<>>
    /\ current = None /\ nbr_idx = 0 /\ caller = "main"
    /\ total_vertices \in (0 - MaxNeg) .. MaxDim
    /\ random_pairs = <<>> /\ result = <<>> /\ j = 0
    /\ distances_from_start = NoneCell
    /\ start_vertex = None /\ end_vertex = None
    /\ n \in 0 .. MaxPairs
    /\ seed \in {None} \cup (0 .. MaxSeed)
    /\ point_pairs = <<>> /\ i = 0
    /\ gen \in GenStates
    /\ tape \in [GenStates -> RawValues]
    /\ calls = 0

NextSampler ==
    SamplerCall \/ SamplerDraw \/ SamplerRedraw \/ SamplerAppend \/ SamplerReturn

SpecSampler == InitSampler /\ [][NextSampler]_vars

\* Two calls in one process with the same arguments, the generator left in
\* any state in between
NextSamplerTwice == NextSampler \/ SamplerAgain

SpecSamplerTwice == InitSampler /\ [][NextSamplerTwice]_vars

-----------------------------------------------------------------------------
(* Claims about create_graph, checked under SpecGraph *)

Returned == pc = "done"
PositiveDims == width > 0 /\ height > 0

\* An edge joining two horizontally / vertically adjacent intersections of the grid
IsHorizontal(e, W) == e[2] = e[1] + 1 /\ (e[1] \div W) = (e[2] \div W)
IsVertical(e, W)   == e[2] = e[1] + W

\* C5 (as claimed): create_graph never returns an (edges, vertices) result when
\* width <= 0 or height <= 0; it fails with InvalidDimension instead.
C5_InvalidDimension ==
    (width <= 0 \/ height <= 0) =>
        /\ ~Returned
        /\ (pc # "create_graph" => error = "InvalidDimension")

GraphCounts(g, W, H, hw, vw) ==
    /\ Len(g.vertices) = W * H
    /\ LET IsH(e) == IsHorizontal(e, W) /\ e[3] = hw
           IsV(e) == IsVertical(e, W) /\ ~IsHorizontal(e, W) /\ e[3] = vw
       IN  /\ Cardinality({k \in 1..Len(g.edges) : IsH(g.edges[k])}) = H * (W - 1)
           /\ Cardinality({k \in 1..Len(g.edges) : IsV(g.edges[k])}) = (H - 1) * W
    /\ Len(g.edges) = H * (W - 1) + (H - 1) * W

\* C6: for positive width and height, create_graph returns exactly width*height
\* vertices, height*(width-1) horizontal edges of weight horizontal_weight and
\* (height-1)*width vertical edges of weight vertical_weight, and no other edge;
\* the defaults 20x10 give 200 vertices and 190 + 180 = 370 edges.
C6_GraphCounts ==
    /\ (Returned /\ PositiveDims) =>
           GraphCounts([edges |-> edges, vertices |-> vertices], width, height,
                       horizontal_weight, vertical_weight)
    /\ Returned =>
           LET g == CreateGraph(DefaultWidth, DefaultHeight,
                                DefaultHorizontalWeight, DefaultVerticalWeight)
           IN  Len(g.vertices) = 200 /\ Len(g.edges) = 370

C6_Witness ==
    /\ Returned /\ width = 3 /\ height = 2
    /\ Len(edges) = 7 /\ Len(vertices) = 6

\* The canonical lists, in closed form
CanonicalVertices(W, H) == [k \in 1..(W * H) |-> <<k - 1, (k - 1) \div W, (k - 1) % W>>]
CanonicalEdges(W, H, hw, vw) ==
    [k \in 1..(H * (W - 1) + (H - 1) * W) |->
        IF k <= H * (W - 1)
        THEN LET r == (k - 1) \div (W - 1)
                 c == (k - 1) % (W - 1)
             IN  <<r * W + c, r * W + c + 1, hw>>
        ELSE LET m == k - 1 - H * (W - 1)
                 r == m \div W
                 c == m % W
             IN  <<r * W + c, (r + 1) * W + c, vw>>]

\* C7: create_graph's output is in canonical order: the k-th vertex entry is
\* (k, k div width, k mod width); the edge list is all horizontal edges in
\* row-major order followed by all vertical edges in row-major order.  (The
\* result is thereby a function of the four arguments alone.)
C7_CanonicalOrder ==
    (Returned /\ PositiveDims) =>
        /\ vertices = CanonicalVertices(width, height)
        /\ edges = CanonicalEdges(width, height, horizontal_weight, vertical_weight)

C7_Witness ==
    /\ Returned /\ width = 3 /\ height = 2
    /\ horizontal_weight = 2 /\ vertical_weight = 1
    /\ edges = << <<0, 1, 2>>, <<1, 2, 2>>, <<3, 4, 2>>, <<4, 5, 2>>,
                  <<0, 3, 1>>, <<1, 4, 1>>, <<2, 5, 1>> >>
    /\ vertices[5] = <<4, 1, 1>>

-----------------------------------------------------------------------------
(* Claims about build_adjacency_list, checked under SpecAdj *)

RECURSIVE SumLens(_, _)
SumLens(adj, keys) ==
    IF keys = {} THEN 0
    ELSE LET k == CHOOSE x \in keys : TRUE
         IN  Len(adj[k]) + SumLens(adj, keys \ {k})

\* What the edges, read in order, contribute to vertex v's list
RECURSIVE EntriesOf(_, _, _)
EntriesOf(es, k, v) ==
    IF k > Len(es) THEN <<>>
    ELSE (IF es[k][1] = v THEN <<<<es[k][2], es[k][3]>>>> ELSE <<>>)
         \o (IF es[k][2] = v THEN <<<<es[k][1], es[k][3]>>>> ELSE <<>>)
         \o EntriesOf(es, k + 1, v)

Occurrences(s, x) == Cardinality({k \in 1..Len(s) : s[k] = x})
ListOf(adj, v) == IF v \in DOMAIN adj THEN adj[v] ELSE <<>>

\* C8: build_adjacency_list turns every edge (A, B, w), in input order, into
\* exactly two entries, (B, w) appended to A's list and (A, w) appended to B's
\* list, without deduplication: the entries number 2 * len(edges), an edge
\* listed twice yields two entries at each endpoint, and (B, w) is in A's list
\* if and only if (A, w) is in B's list.
C8_TwoEntriesPerEdge ==
    Returned =>
        /\ SumLens(adj_list, DOMAIN adj_list) = 2 * Len(edges)
        /\ DOMAIN adj_list = {edges[k][1] : k \in 1..Len(edges)}
                             \cup {edges[k][2] : k \in 1..Len(edges)}
        /\ \A v \in FreeVertices : ListOf(adj_list, v) = EntriesOf(edges, 1, v)
        /\ \A a \in FreeVertices, b \in FreeVertices, w \in Weights :
              /\ Occurrences(ListOf(adj_list, a), <<b, w>>)
                    = Occurrences(edges, <<a, b, w>>) + Occurrences(edges, <<b, a, w>>)
              /\ Occurrences(ListOf(adj_list, a), <<b, w>>)
                    = Occurrences(ListOf(adj_list, b), <<a, w>>)

C8_Witness ==
    /\ Returned
    /\ edges = << <<0, 1, 2>>, <<0, 1, 2>> >>
    /\ adj_list[0] = << <<1, 2>>, <<1, 2>> >>
    /\ adj_list[1] = << <<0, 2>>, <<0, 2>> >>

-----------------------------------------------------------------------------
(* The reference: shortest distances by rounds of relaxation over the edge   *)
(* list (Bellman-Ford), i.e. the minimum weight over all paths               *)

MinDist(S) ==
    IF S \ {Inf} = {} THEN Inf
    ELSE CHOOSE x \in S \ {Inf} : \A y \in S \ {Inf} : x <= y

RoundRelax(es, d) ==
    [v \in DOMAIN d |->
        MinDist({d[v]}
                \cup {Plus(d[es[k][1]], es[k][3]) : k \in {m \in 1..Len(es) : es[m][2] = v}}
                \cup {Plus(d[es[k][2]], es[k][3]) : k \in {m \in 1..Len(es) : es[m][1] = v}})]

RECURSIVE BellmanFord(_, _, _)
BellmanFord(es, d, rounds) ==
    IF rounds = 0 THEN d
    ELSE LET d2 == RoundRelax(es, d)
         IN  IF d2 = d THEN d ELSE BellmanFord(es, d2, rounds - 1)

ReferenceDistances(es, src, total) ==
    BellmanFord(es, [v \in 0 .. (total - 1) |-> IF v = src THEN 0 ELSE Inf], total)

-----------------------------------------------------------------------------
(* Claims about bfs_shortest_distances, checked under Spec *)

SourceInRange == 0 <= source /\ source < total_vertices

\* C1: on every grid graph built by create_graph with positive arguments and
\* every source in [0, width*height), the vector bfs_shortest_distances
\* returns equals, vertex by vertex, the minimum sum of edge weights over all
\* paths from the source, with 0 at the source; on the 3x2 grid with weights
\* 2/1 and source 0 it has d[2] = 4, d[3] = 1, d[5] = 5.
C1_ShortestDistances ==
    (Returned /\ SourceInRange) =>
        /\ ret = ReferenceDistances(edges, source, total_vertices)
        /\ ret[source] = 0
        /\ (width = 3 /\ height = 2 /\ horizontal_weight = 2 /\ vertical_weight = 1
            /\ source = 0) => (ret[2] = 4 /\ ret[3] = 1 /\ ret[5] = 5)

C1_Witness ==
    /\ Returned /\ SourceInRange
    /\ width = 3 /\ height = 2 /\ horizontal_weight = 2 /\ vertical_weight = 1
    /\ source = 0
    /\ ret = [v \in 0..5 |-> <<0, 2, 4, 1, 3, 5>>[v + 1]]

\* C3 (as claimed): for a source outside [0, total_vertices) the search fails
\* before any queue processing begins (no vertex is ever popped) and never
\* returns a distance vector.
C3_InvalidVertex ==
    ~SourceInRange => (~Returned /\ current = None)

-----------------------------------------------------------------------------
(* Claims about calculate_distances_to_all_vertices, checked under SpecAgg   *)
(* and FairSpecAgg                                                           *)

TableFilled(table) ==
    /\ DOMAIN table = 0 .. (total_vertices - 1)
    /\ \A v \in DOMAIN table :
          /\ DOMAIN table[v] = 1 .. Len(random_pairs)
          /\ \A c \in DOMAIN table[v] : table[v][c] # NoneCell

\* C2: every search terminates (its queue empties and it returns), and
\* calculate_distances_to_all_vertices runs all its 2 x number_of_pairs
\* searches to completion and returns: eventually the call has returned, with
\* every pair processed, an empty queue and a fully filled table.
C2_Terminates ==
    <>(/\ Returned
       /\ j = Len(random_pairs)
       /\ queue = <<>>
       /\ TableFilled(ret))

C2_Witness ==
    /\ Returned /\ Len(random_pairs) = 2 /\ total_vertices = 4
    /\ j = 2 /\ queue = <<>>
    /\ random_pairs[1][1] # random_pairs[2][1]

\* C9: calculate_distances_to_all_vertices returns a table of exactly
\* total_vertices rows and len(pairs) columns, no cell left None, whose cell
\* [i][j] is (dist(s_j, i), dist(e_j, i)) for the j-th input pair (s_j, e_j):
\* columns in the order of the pairs, rows in the order of the vertex indices.
C9_DistanceTable ==
    Returned =>
        /\ TableFilled(ret)
        /\ \A c \in 1 .. Len(random_pairs) :
              LET ds == ReferenceDistances(edges, random_pairs[c][1], total_vertices)
                  de == ReferenceDistances(edges, random_pairs[c][2], total_vertices)
              IN  \A v \in 0 .. (total_vertices - 1) : ret[v][c] = <<ds[v], de[v]>>

C9_Witness ==
    /\ Returned /\ width = 2 /\ height = 2
    /\ random_pairs = << <<0, 3>>, <<1, 0>> >>
    /\ ret[2] = << <<1, 2>>, <<3, 1>> >>

-----------------------------------------------------------------------------
(* Claims about generate_random_point_pairs, checked under SpecSampler *)

\* C4 (as claimed): with a bound <= 1 the sampler fails before drawing any
\* vertex: it neither draws (and so never enters the redraw loop) nor returns
\* a pair list.
C4_InvalidBound ==
    total_vertices <= 1 => (~Returned /\ pc # "sampler_while")

PairsValid ==
    (Returned /\ n >= 0 /\ total_vertices > 1) =>
        /\ Len(ret) = n
        /\ \A k \in 1 .. Len(ret) :
              /\ ret[k][1] # ret[k][2]
              /\ 0 <= ret[k][1] /\ ret[k][1] < total_vertices
              /\ 0 <= ret[k][2] /\ ret[k][2] < total_vertices
              /\ total_vertices = 2 => ret[k] \in {<<0, 1>>, <<1, 0>>}

\* C10: for n >= 0 and bound > 1, whatever the generator draws,
\* generate_random_point_pairs returns exactly n pairs, each (start, end) with
\* start # end, 0 <= start < bound and 0 <= end < bound; with bound = 2 every
\* pair is (0,1) or (1,0); and while a pair is being settled the start stays
\* as drawn: only the end is redrawn.
C10_DistinctPairs ==
    /\ []PairsValid
    /\ [][(pc = "sampler_while" /\ pc' = "sampler_while")
            => (start_vertex' = start_vertex /\ Collides(start_vertex, end_vertex))]_vars

\* a return after an end vertex was redrawn: the first two draws collide
C10_Witness ==
    /\ Returned /\ n = 2 /\ total_vertices = 2 /\ seed = 0
    /\ tape[0] = tape[1]
    /\ Len(ret) = 2

\* C11: two calls generate_random_point_pairs(n, bound, seed) with the same
\* non-null seed, bound and n return the same sequence of pairs in the same
\* order, whatever state the process-wide generator was in before each call.
C11_SeedDeterminism ==
    (Returned /\ calls = 1 /\ seed # None) => ret = random_pairs

\* the second of two seeded calls has returned two pairs, one after a redraw
C11_Witness ==
    /\ Returned /\ calls = 1 /\ seed = 1 /\ n = 2 /\ total_vertices = 3
    /\ tape[1] = tape[2]
    /\ Len(ret) = 2 /\ Len(random_pairs) = 2

-----------------------------------------------------------------------------
(* Claims about two searches over one grid, checked under SpecPair *)

\* C12: on any grid built by create_graph, for all vertices u and v, the
\* distance to v returned by the search from u equals the distance to u
\* returned by the search from v.
C12_Symmetry ==
    pc = "agg_got_end" => distances_from_start[end_vertex] = distances[start_vertex]

\* both searches of the pair (0, 5) of the 3 x 2 grid have returned
C12_Witness ==
    /\ pc = "agg_got_end" /\ width = 3 /\ height = 2
    /\ horizontal_weight = 2 /\ vertical_weight = 1
    /\ start_vertex = 0 /\ end_vertex = 5
    /\ distances_from_start[5] = 5 /\ distances[0] = 5

-----------------------------------------------------------------------------
(* Further claims about bfs_shortest_distances, checked under Spec *)

\* C13: on every grid built by create_graph with width >= 1 and height >= 1,
\* searched with total_vertices = width * height from any of its vertices, no
\* entry of the returned distance vector is infinity.
C13_NoInfinity ==
    (Returned /\ SourceInRange) =>
        /\ DOMAIN ret = 0 .. (width * height - 1)
        /\ \A v \in DOMAIN ret : ret[v] # Inf /\ ret[v] >= 0

\* a search from the centre of the 3 x 3 grid has returned
C13_Witness ==
    /\ Returned /\ width = 3 /\ height = 3 /\ source = 4
    /\ ret[0] = horizontal_weight + vertical_weight
    /\ ret[8] = horizontal_weight + vertical_weight

\* C14 (as claimed): a search from a vertex of the grid leaves the adjacency
\* list as build_adjacency_list made it, key set included, even when it looks
\* up a vertex that has no incident edge.
C14_AdjacencyReadOnly ==
    SourceInRange => adj_list = BuildAdjacencyList(edges)

\* the search is inside its while loop (at its head or in the for body), or
\* has just left it
InLoop == pc \in {"bfs_while", "bfs_for"}

\* both directions of every edge, as (u, v, w)
DirectedEdges(es) ==
    {<<es[k][1], es[k][2], es[k][3]>> : k \in 1 .. Len(es)}
        \cup {<<es[k][2], es[k][1], es[k][3]>> : k \in 1 .. Len(es)}

\* d is the total weight of some path from src to v; ref, the true shortest
\* distances, only cuts the enumeration short (no path to u weighs less than ref[u])
RECURSIVE IsPathWeight(_, _, _, _, _)
IsPathWeight(E, ref, src, v, d) ==
    /\ d # Inf /\ ref[v] # Inf /\ d >= ref[v]
    /\ \/ d = 0 /\ v = src
       \/ \E e \in E : e[2] = v /\ e[3] <= d /\ IsPathWeight(E, ref, src, e[1], d - e[3])

InQueue(v) == \E k \in 1 .. Len(queue) : queue[k] = v

Relaxable(e) == Less(Plus(distances[e[1]], e[3]), distances[e[2]])

LoopInvariant ==
    LET E   == DirectedEdges(edges)
        ref == ReferenceDistances(edges, source, total_vertices)
    IN  /\ distances[source] = 0
        /\ \A v \in DOMAIN distances :
              distances[v] # Inf => IsPathWeight(E, ref, source, v, distances[v])
        /\ \A k \in 1 .. Len(queue) : distances[queue[k]] # Inf
        /\ \A e \in E :
              Relaxable(e) => (InQueue(e[1]) \/ (pc = "bfs_for" /\ current = e[1]))
        /\ queue = <<>> /\ pc = "bfs_while" => \A e \in E : ~Relaxable(e)

\* C15: at every iteration of the while loop of a search from a vertex of
\* the grid: distances[source] = 0; every finite distances[v] is the weight of
\* a path from the source to v, so never below the shortest distance; every
\* queued vertex has a finite distance; every edge (u, v, w) with
\* distances[u] + w < distances[v] has u in the queue or being processed, so
\* with an empty queue no edge can be relaxed; and no step of the loop
\* increases any distances[v].
C15_LoopInvariant ==
    /\ []((InLoop /\ SourceInRange) => LoopInvariant)
    /\ [][(InLoop /\ SourceInRange)
            => \A v \in DOMAIN distances : ~Less(distances[v], distances'[v])]_vars

\* midway through a search: two vertices wait in the queue, one of them with
\* an edge that can still be relaxed, while a third is being processed
C15_Witness ==
    /\ pc = "bfs_for" /\ SourceInRange /\ Len(queue) >= 2
    /\ \E e \in DirectedEdges(edges) : Relaxable(e) /\ InQueue(e[1]) /\ e[1] # current
    /\ \E v \in DOMAIN distances : distances[v] = Inf

====
